---- MODULE Spec2Model ----
(***************************************************************************)
(* The concurrency core of a World (server/world/conf.go, Config.New):     *)
(* the bounded transaction queue, the Executor (handleTransactions), the   *)
(* Tick Driver (ticker.tickLoop), the Auto-Save Worker (autoSave), the     *)
(* deadlock Watchdog started by New, and shutdown through the closing      *)
(* channel and the running wait group.                                     *)
(*                                                                         *)
(* Time is counted in seconds, the period of the Watchdog's ticker.        *)
(***************************************************************************)
EXTENDS Integers, Sequences, FiniteSets, TLC

\* ------------------------------------------------------------ constants

\* a queue made with room for one transaction more
QueueCapLarger == 128 + 1
\* conf.go:93   queue: make(chan transaction, 128)
QueueCap == 128
\* the wait group counting one task too few
RunningAddThree == 4 - 1
\* conf.go:104  w.running.Add(4)
RunningAdd == 4
\* conf.go:119  time.Since(w.runningTxAt) > 20*time.Second
DeadlockThreshold == 20
\* a limit of 9 listed transactions
MaxReportedLess == 10 - 1
\* conf.go:130  if no > 10
MaxReported == 10
\* conf.go:74   conf.SaveInterval = time.Minute * 10   (in seconds)
DefaultSaveInterval == 600
\* two Executor tasks, as if New started handleTransactions twice
TwoExecutors == {1, 2}
\* conf.go:109  go w.handleTransactions(): the Executor tasks New starts
Executors == {1}

\* ------------------------------------------------------------ bounds

\* transactions submitted in all by the producers, the Tick Driver and the
\* Auto-Save Worker, after the one New submits
MaxSubmitted == 3
\* transactions the flooding producer of SpecLoad submits beyond QueueCap
FloodExtra == 2
\* transactions the flooding producer of SpecFlood keeps pending at most
FloodPending == 12

\* transactions of the flooding producer whose body submits a transaction
MaxNested == 1
\* Worlds created from the same Settings besides the World followed
MaxOthers == 2

\* ------------------------------------------------------------ identities

\* the tasks that submit transactions: New itself (conf.go:162), the Tick
\* Driver, the Auto-Save Worker, and producer tasks (sessions, subsystems)
NewId == "New"
TickId == "tickLoop"
SaveId == "autoSave"
Producers == {"session"}
FloodId == "flood"

\* the World New is followed for, and other Worlds created from the same
\* Settings
ThisWorld == 1
OtherWorlds == 2..(1 + MaxOthers)
Worlds == {ThisWorld} \cup OtherWorlds

\* A transaction is <<submitter, n>>: the n-th transaction of that submitter.
\* The flooding producer of SpecFlood submits transactions numbered 0, which
\* the model does not tell apart.
Nil == <<>>

\* transaction.CallerInfo(): the caller information the transaction has
\* carried since it was created, which names its submitter and the submission
CallerInfo(tx) == <<"caller", tx[1], tx[2]>>
\* the transaction body is t.tick
IsTick(tx) == tx[1] \in {NewId, TickId}

Min(a, b) == IF a < b THEN a ELSE b

\* time.Since(w.runningTxAt) is stored up to this value: the program compares
\* it with DeadlockThreshold only, and the claims with DeadlockThreshold + 1.
AgeCap == DeadlockThreshold + 2
\* no is stored up to this value: the program compares it with MaxReported only.
NoCap == MaxReported + 1

VARIABLES
    conf,           \* the Config New works on: conf.go:63-85 fill in its defaults
    given,          \* history: the Config New was called on
    settingsFrom,   \* history: the Providers whose Settings() New has called
    ref,            \* s.ref: the reference count of the shared Settings
    refSeen,        \* per World: what its s.ref.Add(1) returned (0 before)
    advance,        \* per World: w.advance (FALSE before the World is built)
    queue,          \* w.queue: the pending transactions, oldest first
    closing,        \* w.closing has been closed
    running,        \* w.running: the wait group's counter
    runningTx,      \* w.runningTx (Nil when no transaction is recorded)
    runningTxAge,   \* time.Since(w.runningTxAt), in seconds, up to AgeCap
    runningTxMu,    \* holder of w.runningTxMu: "free", "watchdog"
    wdPc,           \* Watchdog: "select", "drain", "panicked", "exited"
    no,             \* the Watchdog's counter no, up to NoCap
    panicMsg,       \* the report: entries, oldest first
    pendingAt,      \* history: the queue when the Watchdog detected the deadlock
    exPc,           \* per Executor: "idle", "run", "clear", "exited"
    exTx,           \* per Executor: the transaction it dequeued
    exRead,         \* per Executor: the tick counter its tick body read
    exHang,         \* per Executor: the body it runs never returns
    exNested,       \* per Executor: the submission its body makes on the same queue:
                    \* "none", "send" / "sendAwait" (sending, to go on / to await),
                    \* "sent", "await"
    tdPc,           \* Tick Driver: "wait", "send", "exited"
    tickFired,      \* firings of the Tick Driver's timer so far
    asPc,           \* Auto-Save Worker: "wait", "send", "exited"
    saveFired,      \* firings of the Auto-Save timer so far
    prPc,           \* per producer: "idle", "send", "await"
    prTx,           \* per producer: the transaction it is submitting or awaiting
    sent,           \* per producer: transactions submitted so far
    newPc,          \* New: "defaults", "settings", "build", "start", "crashed" (a nil
                    \* dereference), "exec" (conf.go:162, sending), "await", "returned"
    closePc,        \* Close: "open", "waiting", "closed"
    currentTick,    \* the World's current tick, relative to its value at creation
    started,        \* history: transactions whose body has been started
    restarted,      \* history: transactions whose body has been started again
    done,           \* history: transactions whose completion signal has fired
    drained,        \* history: transactions the Watchdog received from the queue
    blocked         \* history: transactions whose send found the queue full

vars == <<conf, given, settingsFrom, ref, refSeen, advance, queue, closing, running, runningTx, runningTxAge, runningTxMu,
          wdPc, no, panicMsg, pendingAt, exPc, exTx, exRead, exHang, exNested, tdPc,
          tickFired,
          asPc, saveFired, prPc, prTx, sent, newPc, closePc, currentTick,
          started, restarted, done, drained, blocked>>

confVars == <<conf, given, settingsFrom, ref, refSeen, advance>>
recVars == <<runningTx, runningTxAge, runningTxMu>>
wdVars == <<wdPc, no, panicMsg, pendingAt>>
exVars == <<exPc, exTx, exRead, exHang, exNested>>
bgVars == <<tdPc, tickFired, asPc, saveFired>>
prVars == <<prPc, prTx, sent>>
histVars == <<started, restarted, done, drained, blocked>>

\* the process has not been aborted by the Watchdog's panic (conf.go:152)
Alive == wdPc # "panicked"

\* ------------------------------------------------------------ New

\* the defaults without the one for a nil Provider
WithDefaultsButProvider(c) ==
    [c EXCEPT !.SaveInterval = IF c.SaveInterval = 0 THEN DefaultSaveInterval
                               ELSE c.SaveInterval,
              !.Generator = IF c.Generator = "nil" THEN "NopGenerator" ELSE c.Generator,
              !.RandomTickSpeed = IF c.RandomTickSpeed = 0 THEN 3
                                  ELSE c.RandomTickSpeed]

\* conf.go:64-85: the defaults New fills in. A nil Provider or Generator is
\* "nil"; SaveInterval is in seconds.
WithDefaults(c) ==
    [c EXCEPT !.Provider = IF c.Provider = "nil" THEN "NopProvider" ELSE c.Provider,
              !.SaveInterval = IF c.SaveInterval = 0 THEN DefaultSaveInterval
                               ELSE c.SaveInterval,
              !.Generator = IF c.Generator = "nil" THEN "NopGenerator" ELSE c.Generator,
              !.RandomTickSpeed = IF c.RandomTickSpeed = 0 THEN 3
                                  ELSE c.RandomTickSpeed]

\* the configurations the Worlds of Spec are created from
SpecConfs ==
    { [Provider |-> "nil", Generator |-> "nil", ReadOnly |-> ro,
       SaveInterval |-> si, RandomTickSpeed |-> 0] :
      ro \in {FALSE}, si \in {0, -1} }
    \cup { [Provider |-> "nil", Generator |-> "nil", ReadOnly |-> TRUE,
            SaveInterval |-> 0, RandomTickSpeed |-> 0] }

\* The state New leaves at conf.go:161: the World is built, the wait group
\* counts the four tasks, which are all started, and New is about to submit
\* the first tick. runningTxAt is the zero time, so time.Since of it is large.
InitWith(confs) ==
    /\ given \in confs
    /\ conf = WithDefaults(given)
    /\ settingsFrom = <<conf.Provider>>
    /\ ref = 1
    /\ refSeen = [i \in Worlds |-> IF i = ThisWorld THEN 1 ELSE 0]
    /\ advance = [i \in Worlds |-> i = ThisWorld]
    /\ queue = <<>>
    /\ closing = FALSE
    /\ running = RunningAdd
    /\ runningTx = Nil
    /\ runningTxAge = AgeCap
    /\ runningTxMu = "free"
    /\ wdPc = "select"
    /\ no = 0
    /\ panicMsg = <<>>
    /\ pendingAt = <<>>
    /\ exPc = [e \in Executors |-> "idle"]
    /\ exTx = [e \in Executors |-> Nil]
    /\ exRead = [e \in Executors |-> 0]
    /\ exHang = [e \in Executors |-> FALSE]
    /\ exNested = [e \in Executors |-> "none"]
    /\ tdPc = "wait"
    /\ tickFired = 0
    /\ asPc = "wait"
    /\ saveFired = 0
    /\ prPc = [p \in Producers \cup {FloodId} |-> "idle"]
    /\ prTx = [p \in Producers \cup {FloodId} |-> Nil]
    /\ sent = [p \in Producers \cup {FloodId} |-> 0]
    /\ newPc = "exec"
    /\ closePc = "open"
    /\ currentTick = 0
    /\ started = {}
    /\ restarted = {}
    /\ done = {}
    /\ drained = {}
    /\ blocked = {}

Init == InitWith(SpecConfs)

\* the Config whose fields are all left at their zero values
DefaultConf ==
    [Provider |-> "nil", Generator |-> "nil", ReadOnly |-> FALSE,
     SaveInterval |-> 0, RandomTickSpeed |-> 0]

\* the configurations New is called on in SpecNew
InputConfs ==
    [Provider : {"nil", "custom"}, Generator : {"nil", "custom"},
     ReadOnly : BOOLEAN, SaveInterval : {-1, 0, 30}, RandomTickSpeed : {-1, 0, 5}]

\* The state at conf.go:63: New has been called on a Config; nothing is built
\* and no task is started. No World has been created from the Settings.
InitNewWith(confs) ==
    /\ given \in confs
    /\ conf = given
    /\ settingsFrom = <<>>
    /\ ref = 0
    /\ refSeen = [i \in Worlds |-> 0]
    /\ advance = [i \in Worlds |-> FALSE]
    /\ queue = <<>>
    /\ closing = FALSE
    /\ running = 0
    /\ runningTx = Nil
    /\ runningTxAge = AgeCap
    /\ runningTxMu = "free"
    /\ wdPc = "unstarted"
    /\ no = 0
    /\ panicMsg = <<>>
    /\ pendingAt = <<>>
    /\ exPc = [e \in Executors |-> "unstarted"]
    /\ exTx = [e \in Executors |-> Nil]
    /\ exRead = [e \in Executors |-> 0]
    /\ exHang = [e \in Executors |-> FALSE]
    /\ exNested = [e \in Executors |-> "none"]
    /\ tdPc = "unstarted"
    /\ tickFired = 0
    /\ asPc = "unstarted"
    /\ saveFired = 0
    /\ prPc = [p \in Producers \cup {FloodId} |-> "idle"]
    /\ prTx = [p \in Producers \cup {FloodId} |-> Nil]
    /\ sent = [p \in Producers \cup {FloodId} |-> 0]
    /\ newPc = "defaults"
    /\ closePc = "open"
    /\ currentTick = 0
    /\ started = {}
    /\ restarted = {}
    /\ done = {}
    /\ drained = {}
    /\ blocked = {}

InitNew == InitNewWith(InputConfs)

\* conf.go:63-85: New fills in the defaults of its Config
NewDefaults ==
    /\ newPc = "defaults"
    /\ conf' = WithDefaults(conf)
    /\ newPc' = "settings"
    /\ UNCHANGED <<given, settingsFrom, ref, refSeen, advance, queue, closing,
                   running, recVars, wdVars, exVars, bgVars, prVars, closePc,
                   currentTick, histVars>>

\* conf.go:86: s := conf.Provider.Settings(); on a nil Provider the call is a
\* nil dereference, which ends New
NewSettings ==
    /\ newPc = "settings"
    /\ IF conf.Provider = "nil"
       THEN newPc' = "crashed" /\ UNCHANGED settingsFrom
       ELSE newPc' = "build" /\ settingsFrom' = Append(settingsFrom, conf.Provider)
    /\ UNCHANGED <<conf, given, ref, refSeen, advance, queue, closing, running,
                   recVars, wdVars, exVars, bgVars, prVars, closePc, currentTick,
                   histVars>>

\* the World advances if its increment found the count at 1 or more
IsFirstOrLater(n) == n >= 1
\* conf.go:95: advance: s.ref.Add(1) == 1
IsFirst(n) == n = 1

\* conf.go:95, by World i: the atomic increment of the shared count, and the
\* field set from what it returned
RefAdd(i) ==
    /\ ref' = ref + 1
    /\ refSeen' = [refSeen EXCEPT ![i] = ref + 1]
    /\ advance' = [advance EXCEPT ![i] = IsFirst(ref + 1)]

\* conf.go:87-103: the World is built
NewBuild ==
    /\ newPc = "build"
    /\ RefAdd(ThisWorld)
    /\ newPc' = "start"
    /\ UNCHANGED <<conf, given, settingsFrom, queue, closing, running, recVars,
                   wdVars, exVars, bgVars, prVars, closePc, currentTick, histVars>>

\* New starting the Tick Driver, the Auto-Save Worker and the Watchdog, but
\* not the Executor
NewStartNoExecutor ==
    /\ newPc = "start"
    /\ running' = RunningAdd
    /\ tdPc' = "wait"
    /\ asPc' = "wait"
    /\ wdPc' = "select"
    /\ newPc' = "exec"
    /\ UNCHANGED <<confVars, queue, closing, recVars, no, panicMsg, pendingAt,
                   exVars, tickFired, saveFired, prVars, closePc, currentTick,
                   histVars>>

\* conf.go:104-160: the wait group is set to count the four tasks, and the
\* tasks are started
NewStart ==
    /\ newPc = "start"
    /\ running' = RunningAdd
    /\ tdPc' = "wait"
    /\ asPc' = "wait"
    /\ exPc' = [e \in Executors |-> "idle"]
    /\ wdPc' = "select"
    /\ newPc' = "exec"
    /\ UNCHANGED <<confVars, queue, closing, recVars, no, panicMsg, pendingAt,
                   exTx, exRead, exHang, exNested, tickFired, saveFired, prVars, closePc, currentTick,
                   histVars>>

\* New called for another World on the same Settings: its conf.go:95
OtherNew(i) ==
    /\ refSeen[i] = 0
    /\ RefAdd(i)
    /\ UNCHANGED <<conf, given, settingsFrom, queue, closing, running, recVars,
                   wdVars, exVars, bgVars, prVars, newPc, closePc, currentTick,
                   histVars>>

\* w.queue <- tx: a send on the bounded channel, possible when it is not full
CanSend == Len(queue) < QueueCap
\* a queue that hands out the newest transaction first
EnqueueFront(tx) == queue' = <<tx>> \o queue
\* conf.go:93: a channel hands out what was sent on it in the order of the sends
Enqueue(tx) == queue' = Append(queue, tx)

\* conf.go:162, the send half of <-w.Exec(t.tick)
NewExec ==
    /\ Alive /\ newPc = "exec" /\ CanSend
    /\ Enqueue(<<NewId, 1>>)
    /\ newPc' = "await"
    /\ UNCHANGED <<confVars, closing, running, recVars, wdVars, exVars, bgVars,
                   prVars, closePc, currentTick, histVars>>

\* conf.go:162-163, the receive half of <-w.Exec(t.tick), and the return
NewReturn ==
    /\ Alive /\ newPc = "await" /\ <<NewId, 1>> \in done
    /\ newPc' = "returned"
    /\ UNCHANGED <<confVars, queue, closing, running, recVars, wdVars, exVars,
                   bgVars, prVars, closePc, currentTick, histVars>>

\* ------------------------------------------------------------ producers

\* World.Exec, called by producer p with transaction tx: the producer is
\* committed to sending tx on the queue
Exec(p, tx) ==
    /\ Alive /\ prPc[p] = "idle"
    /\ prPc' = [prPc EXCEPT ![p] = "send"]
    /\ prTx' = [prTx EXCEPT ![p] = tx]
    /\ blocked' = IF CanSend THEN blocked ELSE blocked \cup {tx}

\* World.Exec: the send w.queue <- tx, which blocks while the queue is full.
\* A caller of Submit then waits for the completion signal (wait), a caller
\* of Enqueue does not.
Send(p, wait) ==
    /\ Alive /\ prPc[p] = "send" /\ CanSend
    /\ Enqueue(prTx[p])
    /\ prPc' = [prPc EXCEPT ![p] = IF wait THEN "await" ELSE "idle"]
    /\ UNCHANGED <<confVars, closing, running, recVars, wdVars, exVars, bgVars,
                   prTx, sent, newPc, closePc, currentTick, histVars>>

\* the completion signal of the awaited transaction has fired
Await(p) ==
    /\ Alive /\ prPc[p] = "await" /\ prTx[p] \in done
    /\ prPc' = [prPc EXCEPT ![p] = "idle"]
    /\ UNCHANGED <<confVars, queue, closing, running, recVars, wdVars, exVars,
                   bgVars, prTx, sent, newPc, closePc, currentTick, histVars>>

\* the transactions submitted by the producers, the Tick Driver and the
\* Auto-Save Worker
Submitted == sent["session"] + tickFired + saveFired

\* producer p submits its next transaction
ProducerExec(p) ==
    /\ newPc = "returned" /\ Submitted < MaxSubmitted
    /\ Exec(p, <<p, sent[p] + 1>>)
    /\ sent' = [sent EXCEPT ![p] = @ + 1]
    /\ UNCHANGED <<confVars, queue, closing, running, recVars, wdVars, exVars,
                   bgVars, newPc, closePc, currentTick, started, restarted,
                   done, drained>>

\* the flooding producer submits its next transaction, to be sent without
\* waiting for its completion
FloodExec ==
    /\ newPc = "returned" /\ sent[FloodId] < QueueCap + FloodExtra
    /\ Exec(FloodId, <<FloodId, sent[FloodId] + 1>>)
    /\ sent' = [sent EXCEPT ![FloodId] = @ + 1]
    /\ UNCHANGED <<confVars, queue, closing, running, recVars, wdVars, exVars,
                   bgVars, newPc, closePc, currentTick, started, restarted,
                   done, drained>>

\* the flooding producer submits one of a burst of MaxReported + FloodExtra
\* transactions, to be sent without waiting for its completion
BacklogExec ==
    /\ newPc = "returned" /\ sent[FloodId] < MaxReported + FloodExtra
    /\ Exec(FloodId, <<FloodId, sent[FloodId] + 1>>)
    /\ sent' = [sent EXCEPT ![FloodId] = @ + 1]
    /\ UNCHANGED <<confVars, queue, closing, running, recVars, wdVars, exVars,
                   bgVars, newPc, closePc, currentTick, started, restarted,
                   done, drained>>

\* a producer that never stops submitting, with at most FloodPending of its
\* transactions pending; its transactions are not told apart
FloodAgain ==
    /\ newPc = "returned" /\ Len(queue) < FloodPending
    /\ Exec(FloodId, <<FloodId, 0>>)
    /\ UNCHANGED <<confVars, queue, closing, running, recVars, wdVars, exVars,
                   bgVars, sent, newPc, closePc, currentTick, started, restarted,
                   done, drained>>

\* ------------------------------------------------------------ Tick Driver

\* a Tick Driver that skips a firing while an earlier tick is not complete
TickerFireSkip ==
    /\ Alive /\ tdPc = "wait" /\ Submitted < MaxSubmitted
    /\ tdPc' = IF ({<<NewId, 1>>} \cup {<<TickId, k>> : k \in 1..tickFired}) \subseteq done
              THEN "send" ELSE "wait"
    /\ tickFired' = tickFired + 1
    /\ UNCHANGED <<confVars, queue, closing, running, recVars, wdVars, exVars,
                   asPc, saveFired, prVars, newPc, closePc, currentTick, histVars>>

\* ticker.tickLoop: the timer fires and the driver takes the firing
TickerFire ==
    /\ Alive /\ tdPc = "wait" /\ Submitted < MaxSubmitted
    /\ tdPc' = "send"
    /\ tickFired' = tickFired + 1
    /\ blocked' = IF CanSend THEN blocked ELSE blocked \cup {<<TickId, tickFired + 1>>}
    /\ UNCHANGED <<confVars, queue, closing, running, recVars, wdVars, exVars,
                   asPc, saveFired, prVars, newPc, closePc, currentTick, started,
                   restarted, done, drained>>

\* ticker.tickLoop: the tick transaction of the firing is enqueued
TickLoopSend ==
    /\ Alive /\ tdPc = "send" /\ CanSend
    /\ Enqueue(<<TickId, tickFired>>)
    /\ tdPc' = "wait"
    /\ UNCHANGED <<confVars, closing, running, recVars, wdVars, exVars,
                   tickFired, asPc, saveFired, prVars, newPc, closePc,
                   currentTick, histVars>>

\* ticker.tickLoop: case <-w.closing
TickLoopExit ==
    /\ Alive /\ tdPc = "wait" /\ closing
    /\ tdPc' = "exited"
    /\ running' = running - 1
    /\ UNCHANGED <<confVars, queue, closing, recVars, wdVars, exVars, tickFired,
                   asPc, saveFired, prVars, newPc, closePc, currentTick, histVars>>

\* ------------------------------------------------------------ Auto-Save Worker

\* auto-save that does not look at ReadOnly
AutoSaveIgnoresReadOnly == conf.SaveInterval > 0
\* autoSave is disabled for a read-only World and for a negative SaveInterval
AutoSaveEnabled == ~conf.ReadOnly /\ conf.SaveInterval > 0

\* World.autoSave: the save timer fires
AutoSaveFire ==
    /\ Alive /\ asPc = "wait" /\ AutoSaveEnabled /\ Submitted < MaxSubmitted
    /\ asPc' = "send"
    /\ saveFired' = saveFired + 1
    /\ blocked' = IF CanSend THEN blocked ELSE blocked \cup {<<SaveId, saveFired + 1>>}
    /\ UNCHANGED <<confVars, queue, closing, running, recVars, wdVars, exVars,
                   tdPc, tickFired, prVars, newPc, closePc, currentTick, started,
                   restarted, done, drained>>

\* World.autoSave: the persistence transaction is enqueued
AutoSaveSend ==
    /\ Alive /\ asPc = "send" /\ CanSend
    /\ Enqueue(<<SaveId, saveFired>>)
    /\ asPc' = "wait"
    /\ UNCHANGED <<confVars, closing, running, recVars, wdVars, exVars, tdPc,
                   tickFired, saveFired, prVars, newPc, closePc, currentTick,
                   histVars>>

\* World.autoSave: case <-w.closing
AutoSaveExit ==
    /\ Alive /\ asPc = "wait" /\ closing
    /\ asPc' = "exited"
    /\ running' = running - 1
    /\ UNCHANGED <<confVars, queue, closing, recVars, wdVars, exVars, tdPc,
                   tickFired, saveFired, prVars, newPc, closePc, currentTick,
                   histVars>>

\* ------------------------------------------------------------ Executor

\* handleTransactions: case tx := <-w.queue; then, under runningTxMu, record
\* the transaction and its start time, and start its body. A tick body begins
\* by reading the current tick. The body may be one that never returns (hang).
Dequeue(e, hang) ==
    /\ Alive /\ exPc[e] = "idle" /\ queue # <<>> /\ runningTxMu = "free"
    /\ exTx' = [exTx EXCEPT ![e] = Head(queue)]
    /\ queue' = Tail(queue)
    /\ runningTx' = Head(queue)
    /\ runningTxAge' = 0
    /\ exPc' = [exPc EXCEPT ![e] = "run"]
    /\ exRead' = [exRead EXCEPT ![e] = currentTick]
    /\ exHang' = [exHang EXCEPT ![e] = hang]
    /\ exNested' = [exNested EXCEPT ![e] = "none"]
    /\ started' = started \cup {Head(queue)}
    /\ restarted' = IF Head(queue) \in started THEN restarted \cup {Head(queue)}
                    ELSE restarted
    /\ UNCHANGED <<confVars, closing, running, runningTxMu, wdVars, bgVars, prVars,
                   newPc, closePc, currentTick, done, drained, blocked>>

\* the transaction the body of tx submits
Nested(tx) == <<"nested", tx[2]>>

\* the body's own submission, if it makes one, is made and, if it awaits the
\* completion signal, the signal has fired
BodyFinished(e) ==
    \/ exNested[e] \in {"none", "sent"}
    \/ exNested[e] = "await" /\ Nested(exTx[e]) \in done

\* the numbers of pending transactions at which bodies call World.Exec
NestedAt == {0, QueueCap - 1, QueueCap}

\* World.Exec called by the body being executed, on the same World, to await
\* the completion (wait) or not: the send w.queue <- tx is made at once if the
\* queue has room; if not the body is blocked in it, and makes it when there
\* is room. Only bodies of the first MaxNested transactions of the flooding
\* producer call World.Exec, with NestedAt transactions pending.
BodyExec(e, wait) ==
    /\ Alive /\ exPc[e] = "run" /\ ~exHang[e]
    /\ exTx[e][1] = FloodId /\ exTx[e][2] \in 1..MaxNested
    /\ \/ exNested[e] = "none" /\ Len(queue) \in NestedAt
       \/ exNested[e] = (IF wait THEN "sendAwait" ELSE "send") /\ CanSend
    /\ IF CanSend
       THEN /\ Enqueue(Nested(exTx[e]))
            /\ exNested' = [exNested EXCEPT ![e] = IF wait THEN "await" ELSE "sent"]
       ELSE /\ queue' = queue
            /\ exNested' = [exNested EXCEPT ![e] = IF wait THEN "sendAwait" ELSE "send"]
    /\ UNCHANGED <<confVars, closing, running, recVars, wdVars, exPc, exTx,
                   exRead, exHang, bgVars, prVars, newPc, closePc, currentTick,
                   histVars>>

\* handleTransactions: the body returns. A tick body ends by storing the
\* tick it read plus one.
Return(e) ==
    /\ Alive /\ exPc[e] = "run" /\ ~exHang[e] /\ BodyFinished(e)
    /\ exPc' = [exPc EXCEPT ![e] = "clear"]
    /\ currentTick' = IF IsTick(exTx[e]) THEN exRead[e] + 1 ELSE currentTick
    /\ UNCHANGED <<confVars, queue, closing, running, recVars, wdVars, exTx,
                   exRead, exHang, exNested, bgVars, prVars, newPc, closePc,
                   histVars>>

\* handleTransactions: under runningTxMu, clear the record; then signal the
\* transaction's completion
Clear(e) ==
    /\ Alive /\ exPc[e] = "clear" /\ runningTxMu = "free"
    /\ runningTx' = Nil
    /\ done' = done \cup {exTx[e]}
    /\ exPc' = [exPc EXCEPT ![e] = "idle"]
    /\ exTx' = [exTx EXCEPT ![e] = Nil]
    /\ UNCHANGED <<confVars, queue, closing, running, runningTxAge, runningTxMu,
                   wdVars, exRead, exHang, exNested, bgVars, prVars, newPc,
                   closePc, currentTick, started, restarted, drained, blocked>>

\* handleTransactions: case <-w.closing
ExecutorExit(e) ==
    /\ Alive /\ exPc[e] = "idle" /\ closing
    /\ exPc' = [exPc EXCEPT ![e] = "exited"]
    /\ running' = running - 1
    /\ UNCHANGED <<confVars, queue, closing, recVars, wdVars, exTx, exRead,
                   exHang, exNested, bgVars, prVars, newPc, closePc, currentTick,
                   histVars>>

\* ------------------------------------------------------------ Watchdog

\* the deadlock test without its nil check
DeadlockedNoNilCheck == runningTxAge > DeadlockThreshold
\* the deadlock test without its time test
DeadlockedAnyAge == runningTx # Nil
\* conf.go:119: the deadlock test, made while holding runningTxMu
Deadlocked == runningTx # Nil /\ runningTxAge > DeadlockThreshold

\* runningTxMu unlocked before the report is built
ReportLockFree == "free"
\* conf.go:118-152: runningTxMu is locked at line 118 and, once a deadlock is
\* detected, never unlocked: the Watchdog holds it while it builds the report
ReportLock == "watchdog"

\* the break leaving the for loop
AfterBreakLeavesLoop == "report"
\* conf.go:130-133: the break leaves the select statement, not the for loop,
\* whose condition !exitLoop is still true: the Watchdog goes on receiving
AfterBreak == "drain"

\* conf.go:131: panicMsg += "\n..."; a run of such lines is stored as one
AppendEllipsis(msg) ==
    IF msg # <<>> /\ msg[Len(msg)] = <<"...">> THEN msg
    ELSE Append(msg, <<"...">>)

\* conf.go:112-122 and 154: a second passes, so time.Since(w.runningTxAt)
\* grows and the Watchdog's ticker t2 fires. A Watchdog waiting in its select
\* takes case <-t2.C: it locks runningTxMu, tests for a deadlock and either
\* unlocks, or starts the report and keeps the lock. The Watchdog is taken to
\* serve its ticker without delay.
ClockTick ==
    /\ Alive
    /\ runningTxAge' = Min(runningTxAge + 1, AgeCap)
    /\ runningTx' = runningTx
    /\ IF wdPc = "select" /\ Deadlocked'
       THEN /\ wdPc' = "drain"
            /\ runningTxMu' = ReportLock
            /\ no' = 0
            /\ panicMsg' = << <<"WORLD NAME">> >>
            /\ pendingAt' = queue
       ELSE UNCHANGED <<wdPc, runningTxMu, no, panicMsg, pendingAt>>
    /\ UNCHANGED <<confVars, queue, closing, running, exVars, bgVars, prVars, newPc,
                   closePc, currentTick, histVars>>

\* conf.go:126-139: case pendingTx := <-w.queue, one pass of the for loop
WatchdogDrain ==
    /\ Alive /\ wdPc = "drain" /\ queue # <<>>
    /\ queue' = Tail(queue)
    /\ drained' = drained \cup {Head(queue)}
    /\ no' = Min(no + 1, NoCap)
    /\ IF no + 1 > MaxReported
       THEN /\ panicMsg' = AppendEllipsis(panicMsg)
            /\ wdPc' = AfterBreak
       ELSE /\ panicMsg' = Append(panicMsg, <<"TX NO", no + 1, CallerInfo(Head(queue))>>)
            /\ wdPc' = "drain"
    /\ UNCHANGED <<confVars, closing, running, recVars, pendingAt, exVars, bgVars,
                   prVars, newPc, closePc, currentTick, started, restarted, done,
                   blocked>>

\* conf.go:140-152: the default case ends the loop; the report is completed
\* with the hanging transaction and raised by panic, which ends the process
WatchdogPanic ==
    /\ Alive
    /\ IF wdPc = "drain" THEN queue = <<>> ELSE wdPc = "report"
    /\ panicMsg' = Append(panicMsg,
                          <<"HANGING", IF runningTx = Nil THEN Nil
                                       ELSE CallerInfo(runningTx)>>)
    /\ wdPc' = "panicked"
    /\ UNCHANGED <<confVars, queue, closing, running, recVars, no, pendingAt,
                   exVars, bgVars, prVars, newPc, closePc, currentTick, histVars>>

\* the Watchdog returning without w.running.Done()
WatchdogExitNoDone ==
    /\ Alive /\ wdPc = "select" /\ closing
    /\ wdPc' = "exited"
    /\ UNCHANGED <<confVars, queue, closing, running, recVars, no, panicMsg,
                   pendingAt, exVars, bgVars, prVars, newPc, closePc, currentTick,
                   histVars>>

\* conf.go:155-157: case <-w.closing
WatchdogExit ==
    /\ Alive /\ wdPc = "select" /\ closing
    /\ wdPc' = "exited"
    /\ running' = running - 1
    /\ UNCHANGED <<confVars, queue, closing, recVars, no, panicMsg, pendingAt,
                   exVars, bgVars, prVars, newPc, closePc, currentTick, histVars>>

\* ------------------------------------------------------------ Close

\* World.Close: broadcast the shutdown signal by closing w.closing
Close ==
    /\ Alive /\ closePc = "open" /\ newPc = "returned"
    /\ closing' = TRUE
    /\ closePc' = "waiting"
    /\ UNCHANGED <<confVars, queue, running, recVars, wdVars, exVars, bgVars,
                   prVars, newPc, currentTick, histVars>>

\* World.Close: w.running.Wait() returns when the counter is zero
CloseDone ==
    /\ Alive /\ closePc = "waiting" /\ running = 0
    /\ closePc' = "closed"
    /\ UNCHANGED <<confVars, queue, closing, running, recVars, wdVars, exVars,
                   bgVars, prVars, newPc, currentTick, histVars>>

\* ------------------------------------------------------------ specifications

Background ==
    \/ TickerFire \/ TickLoopSend \/ TickLoopExit
    \/ AutoSaveFire \/ AutoSaveSend \/ AutoSaveExit

ExecutorRuns ==
    \/ \E e \in Executors, hang \in BOOLEAN : Dequeue(e, hang)
    \/ \E e \in Executors : Return(e)
    \/ \E e \in Executors : Clear(e)

Executor == ExecutorRuns \/ \E e \in Executors : ExecutorExit(e)

WatchdogReports == WatchdogDrain \/ WatchdogPanic

Watchdog == ClockTick \/ WatchdogReports \/ WatchdogExit

Next ==
    \/ NewExec \/ NewReturn
    \/ \E p \in Producers : ProducerExec(p)
    \/ \E p \in Producers, wait \in BOOLEAN : Send(p, wait)
    \/ \E p \in Producers : Await(p)
    \/ Background
    \/ Executor
    \/ Watchdog
    \/ Close \/ CloseDone

Spec == Init /\ [][Next]_vars

\* Scheduling: a task that can take a step is not held up for ever, and time
\* passes. Nothing obliges a timer to fire again, a producer to submit, Close
\* to be called or a hanging body to return.
ExecutorFair ==
    \A e \in Executors :
        /\ WF_vars(\E hang \in BOOLEAN : Dequeue(e, hang))
        /\ WF_vars(Return(e))
        /\ WF_vars(Clear(e))
WatchdogFair ==
    WF_vars(ClockTick) /\ WF_vars(WatchdogDrain) /\ WF_vars(WatchdogPanic)
ExitFair ==
    /\ WF_vars(TickLoopExit) /\ WF_vars(AutoSaveExit) /\ WF_vars(WatchdogExit)
    /\ \A e \in Executors : WF_vars(ExecutorExit(e))
    /\ WF_vars(CloseDone)
SendFair ==
    /\ WF_vars(NewExec) /\ WF_vars(NewReturn)
    /\ WF_vars(TickLoopSend) /\ WF_vars(AutoSaveSend)

\* a World left to its own tasks: New, the Tick Driver, the Auto-Save Worker,
\* the Executor, the Watchdog and Close; no producer submits
NextOwn ==
    \/ NewExec \/ NewReturn
    \/ Background
    \/ Executor
    \/ Watchdog
    \/ Close \/ CloseDone

\* that World under the scheduling above
FairSpec ==
    /\ Init /\ [][NextOwn]_vars
    /\ ExecutorFair /\ WatchdogFair /\ ExitFair /\ SendFair

\* the creation of Worlds from one Settings: New up to conf.go:161 for the
\* World followed, and the increments of the others
NextNew ==
    \/ NewDefaults \/ NewSettings \/ NewBuild \/ NewStart
    \/ \E i \in OtherWorlds : OtherNew(i)

SpecNew == InitNew /\ [][NextNew]_vars

\* New from its call to its return, for the default Config, with the tasks it
\* starts, under the scheduling above
NextStartup ==
    \/ NewDefaults \/ NewSettings \/ NewBuild \/ NewStart
    \/ NewExec \/ NewReturn
    \/ TickerFire \/ TickLoopSend
    \/ AutoSaveFire \/ AutoSaveSend
    \/ ExecutorRuns
    \/ ClockTick
    \/ WatchdogReports

NewFair ==
    /\ WF_vars(NewDefaults) /\ WF_vars(NewSettings)
    /\ WF_vars(NewBuild) /\ WF_vars(NewStart)

SpecStartup ==
    /\ InitNewWith({DefaultConf}) /\ [][NextStartup]_vars
    /\ NewFair /\ ExecutorFair /\ WatchdogFair /\ SendFair

\* a World under load: one producer submits QueueCap + FloodExtra transactions
\* without waiting for any; no timer fires, no second passes and Close is not
\* called. The Executor and the senders are scheduled as above.
InitLoad == InitWith({DefaultConf})

NextLoad ==
    \/ NewExec \/ NewReturn
    \/ FloodExec
    \/ Send(FloodId, FALSE)
    \/ ExecutorRuns

FloodFair ==
    WF_vars(NewExec) /\ WF_vars(NewReturn) /\ WF_vars(Send(FloodId, FALSE))

SpecLoad == InitLoad /\ [][NextLoad]_vars /\ ExecutorFair /\ FloodFair

\* that World with transaction bodies that submit transactions themselves
NextReentrant ==
    \/ NewExec \/ NewReturn
    \/ FloodExec
    \/ Send(FloodId, FALSE)
    \/ \E e \in Executors : Dequeue(e, FALSE)
    \/ \E e \in Executors : Return(e)
    \/ \E e \in Executors : Clear(e)
    \/ \E e \in Executors, wait \in BOOLEAN : BodyExec(e, wait)

SpecReentrant == InitLoad /\ [][NextReentrant]_vars /\ ExecutorFair /\ FloodFair

\* a World with a producer that never stops submitting, under the scheduling
\* above
NextFlood ==
    \/ NewExec \/ NewReturn
    \/ FloodAgain
    \/ Send(FloodId, FALSE)
    \/ ExecutorRuns
    \/ ClockTick
    \/ WatchdogReports

\* a World with a backlog: a producer submits a burst of transactions, time
\* passes and the Watchdog polls
NextReport ==
    \/ NewExec \/ NewReturn
    \/ BacklogExec
    \/ Send(FloodId, FALSE)
    \/ ExecutorRuns
    \/ ClockTick
    \/ WatchdogReports

SpecReport == InitLoad /\ [][NextReport]_vars

SpecFlood ==
    /\ InitLoad /\ [][NextFlood]_vars
    /\ ExecutorFair /\ WatchdogFair /\ FloodFair

\* ------------------------------------------------------------ derived state

\* the Watchdog has detected a deadlock and is building or has raised its report
Reporting == wdPc \in {"drain", "report", "panicked"}
\* the transactions whose body is being executed
Executing == {exTx[e] : e \in {x \in Executors : exPc[x] = "run"}}
\* the transactions an Executor holds: body executing, or returned and not yet
\* marked complete
Held == {exTx[e] : e \in {x \in Executors : exPc[x] \in {"run", "clear"}}}
CountIn(q, t) == Cardinality({i \in 1..Len(q) : q[i] = t})
Ind(b) == IF b THEN 1 ELSE 0
\* the transactions that have been sent on the queue so far
Enqueued ==
    (IF newPc = "exec" THEN {} ELSE {<<NewId, 1>>})
    \cup UNION {({<<p, k>> : k \in 1..sent[p]}
                 \ (IF prPc[p] = "send" THEN {prTx[p]} ELSE {})) : p \in Producers}
    \cup ({<<TickId, k>> : k \in 1..tickFired}
          \ (IF tdPc = "send" THEN {<<TickId, tickFired>>} ELSE {}))
    \cup ({<<SaveId, k>> : k \in 1..saveFired}
          \ (IF asPc = "send" THEN {<<SaveId, saveFired>>} ELSE {}))

\* ------------------------------------------------------------ claims

\* C1 (single-writer): in every reachable state at most one transaction body
\* is executing, whatever the producers, the Tick Driver and the Auto-Save
\* Worker enqueue.
SingleWriter == Cardinality({e \in Executors : exPc[e] = "run"}) <= 1
\* a body is executing while work of two other submitters is pending
SingleWriterWitness ==
    /\ \E e \in Executors : exPc[e] = "run"
    /\ \E i, j \in 1..Len(queue) : queue[i][1] # queue[j][1]

\* C2 (FIFO): of two transactions of one producer, the earlier has been run
\* and its completion signalled before the later is started, and completion
\* signals fire in submission order.
FifoOrder ==
    /\ \A t \in started : \A k \in 1..(t[2] - 1) : <<t[1], k>> \in done
    /\ \A t \in done : \A k \in 1..(t[2] - 1) : <<t[1], k>> \in done
\* two transactions of one producer are pending with another submitter's
\* between them, after the Executor has run an earlier transaction
FifoOrderWitness ==
    /\ \E i, j, k \in 1..Len(queue) :
          /\ i < j /\ j < k
          /\ queue[i] = <<"session", 1>>
          /\ queue[j][1] # "session"
          /\ queue[k] = <<"session", 2>>
    /\ <<NewId, 1>> \in done

\* C3, as claimed: no transaction is removed from the queue without being run
\* (only the Executor removes transactions).
OnlyExecutorRemoves == \A t \in drained : t \in started

\* C3, amended: every enqueued transaction is pending, held by the Executor,
\* complete, or was received by the Watchdog, exactly one of these; a
\* transaction is run at most once and marked complete only after its run; the
\* Watchdog receives from the queue only while it reports a deadlock, with the
\* record holding a transaction that has run for more than the threshold, and
\* what it receives is never run.
ExactlyOnce ==
    /\ \A t \in Enqueued :
          CountIn(queue, t) + Ind(t \in Held) + Ind(t \in done) + Ind(t \in drained) = 1
    /\ restarted = {}
    /\ started = Held \cup done
    /\ drained # {} =>
          /\ Reporting
          /\ runningTx # Nil
          /\ runningTxAge > DeadlockThreshold
\* the Watchdog has received a pending transaction, after others were run
ExactlyOnceWitness == drained # {} /\ Cardinality(done) >= 2

\* C6 (no false alarm): the Watchdog reports only while the record holds a
\* transaction that has been running for more than the threshold; never while
\* the record is empty, and never for a transaction within the threshold.
NoFalseAlarm ==
    Reporting => runningTx # Nil /\ runningTxAge > DeadlockThreshold
\* the abort was raised after earlier transactions had completed
NoFalseAlarmWitness == wdPc = "panicked" /\ Cardinality(done) >= 2

\* C8 (shutdown, safety): when Close has completed the counter is zero, every
\* background task has exited and no transaction body is executing.
ClosedIsQuiet ==
    closePc = "closed" =>
        /\ running = 0
        /\ tdPc = "exited" /\ asPc = "exited" /\ wdPc = "exited"
        /\ \A e \in Executors : exPc[e] = "exited"
        /\ runningTx = Nil
\* Close has completed with transactions left pending
ClosedIsQuietWitness == closePc = "closed" /\ queue # <<>>

PendingSend ==
    {prTx[p] : p \in {x \in Producers \cup {FloodId} : prPc[x] = "send"}}
    \cup (IF tdPc = "send" THEN {<<TickId, tickFired>>} ELSE {})
    \cup (IF asPc = "send" THEN {<<SaveId, saveFired>>} ELSE {})
\* a transaction body that never returns is being executed
Hung == \E e \in Executors : exPc[e] = "run" /\ exHang[e]

StuckIsReported == Hung ~> (wdPc = "panicked" \/ closing)

SaveTransactions ==
    {t \in PendingSend \cup started \cup drained : t[1] = SaveId}
    \cup {queue[i] : i \in {j \in 1..Len(queue) : queue[j][1] = SaveId}}

AdvancingInstance ==
    /\ Cardinality({i \in Worlds : advance[i]}) = (IF ref >= 1 THEN 1 ELSE 0)
    /\ \A i \in Worlds : advance[i] <=> refSeen[i] = 1
    /\ \A i, j \in Worlds : (i # j /\ refSeen[i] # 0) => refSeen[i] # refSeen[j]
    /\ ref = Cardinality({i \in Worlds : refSeen[i] # 0})
\* three Worlds have been created, the World followed being the last
AdvancingInstanceWitness ==
    /\ refSeen[ThisWorld] = 3
    /\ \E i \in OtherWorlds : advance[i]
    /\ newPc = "exec"

\* C13, as claimed: the Watchdog receives at most 10 transactions from the
\* queue, however many are pending.
BoundedDrain == no <= MaxReported

\* the numbered entries of the report, in the order of the report
IsEntry(x) == x[1] = "TX NO"
ReportEntries == SelectSeq(panicMsg, IsEntry)
\* the caller information of the transactions pending at detection
PendingAtCallers == {CallerInfo(pendingAt[j]) : j \in 1..Len(pendingAt)}

\* C14, as claimed: the report raised names the World, lists exactly
\* min(n, 10) pending transactions, n being the number pending at detection,
\* the oldest first and numbered from 1, and ends with the stuck transaction.
ReportAsClaimed ==
    wdPc = "panicked" =>
        /\ panicMsg[1] = <<"WORLD NAME">>
        /\ panicMsg[Len(panicMsg)] = <<"HANGING", CallerInfo(runningTx)>>
        /\ Len(ReportEntries) = Min(Len(pendingAt), 10)
        /\ \A k \in 1..Len(ReportEntries) :
              ReportEntries[k] = <<"TX NO", k, CallerInfo(pendingAt[k])>>

\* C14, amended: the report raised names the World, then lists the first
\* min(r, 10) transactions the Watchdog received, r being at least the number
\* n pending at detection: numbered from 1, the first min(n, 10) being the
\* oldest pending at detection in queue order and any further ones having been
\* enqueued after detection; then one "..." if more than 10 were received;
\* and it ends with the stuck transaction.
ReportContents ==
    wdPc = "panicked" =>
        /\ panicMsg = << <<"WORLD NAME">> >> \o ReportEntries
                       \o (IF no > 10 THEN << <<"...">> >> ELSE <<>>)
                       \o << <<"HANGING", CallerInfo(runningTx)>> >>
        /\ Len(ReportEntries) = Min(no, 10)
        /\ Len(ReportEntries) >= Min(Len(pendingAt), 10)
        /\ \A k \in 1..Len(ReportEntries) :
              /\ ReportEntries[k][2] = k
              /\ \E t \in drained : ReportEntries[k][3] = CallerInfo(t)
              /\ IF k <= Len(pendingAt)
                 THEN ReportEntries[k][3] = CallerInfo(pendingAt[k])
                 ELSE ReportEntries[k][3] \notin PendingAtCallers
\* the report was raised with more than 10 transactions pending at detection
ReportContentsWitness ==
    /\ wdPc = "panicked"
    /\ Len(pendingAt) > 10
    /\ Len(ReportEntries) = 10

\* C15 (configuration defaults): once New has filled in the defaults, a nil
\* Provider is NopProvider and a nil Generator NopGenerator, SaveInterval 0 is
\* 10 minutes and RandomTickSpeed 0 is 3, and every other value given,
\* negative ones included, is unchanged; New never dereferences a nil
\* Provider, and it calls Settings() once, on the Provider of the Config.
ConfigDefaults ==
    /\ newPc # "crashed"
    /\ newPc # "defaults" =>
          /\ given.Provider = "nil" => conf.Provider = "NopProvider"
          /\ given.Provider # "nil" => conf.Provider = given.Provider
          /\ given.Generator = "nil" => conf.Generator = "NopGenerator"
          /\ given.Generator # "nil" => conf.Generator = given.Generator
          /\ given.SaveInterval = 0 => conf.SaveInterval = 600
          /\ given.SaveInterval # 0 => conf.SaveInterval = given.SaveInterval
          /\ given.RandomTickSpeed = 0 => conf.RandomTickSpeed = 3
          /\ given.RandomTickSpeed # 0 => conf.RandomTickSpeed = given.RandomTickSpeed
          /\ conf.ReadOnly = given.ReadOnly
    /\ newPc \in {"defaults", "settings"} => settingsFrom = <<>>
    /\ newPc \notin {"defaults", "settings"} =>
          settingsFrom = <<conf.Provider>> /\ conf.Provider # "nil"
\* New has built a World from a Config with nil collaborators and negative
\* SaveInterval and RandomTickSpeed
ConfigDefaultsWitness ==
    /\ newPc = "exec"
    /\ given.Provider = "nil" /\ given.Generator = "nil"
    /\ given.SaveInterval < 0 /\ given.RandomTickSpeed < 0
    /\ conf.SaveInterval < 0 /\ conf.RandomTickSpeed < 0

\* C16, as claimed: the lock of the record is held only by a Watchdog that
\* has detected a deadlock, a Watchdog that holds it releases it or raises the
\* abort, and an Executor that has to clear the record is not kept waiting
\* for the lock for ever.
LockHeldBriefly ==
    /\ [](runningTxMu # "free" => Reporting)
    /\ (runningTxMu # "free") ~> (runningTxMu = "free" \/ wdPc = "panicked")
    /\ \A e \in Executors :
          (exPc[e] = "clear") ~> (exPc[e] # "clear" \/ wdPc = "panicked")

\* C17, as claimed: a transaction body that never returns leads to the
\* Watchdog's abort, also when shutdown is signalled.
StuckNeverSilent == Hung ~> (wdPc = "panicked")

\* a body that has called World.Exec to await the completion
Awaiting(e) == exPc[e] = "run" /\ exNested[e] \in {"sendAwait", "await"}
\* a fire-and-forget call of World.Exec by the body of the k-th transaction
\* of the flooding producer has been made
FireAndForget(k) ==
    \E e \in Executors : exTx[e] = <<FloodId, k>> /\ exNested[e] = "sent"
\* a body that awaits its own submission stays in that wait for ever
AwaitNeverCompletes ==
    [][\A e \in Executors : Awaiting(e) => Awaiting(e)']_vars
\* a body is blocked in its own submission or in the wait for it
BodyStuck ==
    \E e \in Executors :
        exPc[e] = "run" /\ exNested[e] \in {"send", "sendAwait", "await"}
\* what a body submitted is started only after that body's transaction was
\* marked complete, and what it submitted without awaiting is executed,
\* unless a body before it is stuck
NestedRunsAfter ==
    /\ [](\A t \in started : t[1] = "nested" => <<FloodId, t[2]>> \in done)
    /\ \A k \in 1..MaxNested :
          FireAndForget(k) ~> (<<"nested", k>> \in done \/ BodyStuck)

ExitedTasks ==
    Ind(tdPc = "exited") + Ind(asPc = "exited") + Ind(wdPc = "exited")
    + Cardinality({e \in Executors : exPc[e] = "exited"})

\* C19 (lifecycle counter): the counter is 4 less the number of background
\* tasks that have exited, so it counts the tasks not yet exited and each exit
\* takes one off once; it is 4 until shutdown is signalled, no task exits
\* before the signal, and the counter is never negative.
LifecycleCounter ==
    /\ running = 4 - ExitedTasks
    /\ ~closing => running = 4 /\ ExitedTasks = 0
    /\ running >= 0
\* after the shutdown signal the Watchdog and the Tick Driver have exited
\* while the Executor is still in a transaction body
LifecycleCounterWitness ==
    /\ running = 2 /\ wdPc = "exited" /\ tdPc = "exited"
    /\ \E e \in Executors : exPc[e] = "run"

\* C20 (New returns after its first tick): when New has returned its initial
\* tick transaction has been run and marked complete and the four background
\* tasks have been started; and New, once called, returns, unless a
\* transaction body hangs or the Watchdog detects a deadlock.
NewReturnsAfterTick ==
    /\ [](newPc = "returned" =>
            /\ <<NewId, 1>> \in started /\ <<NewId, 1>> \in done
            /\ tdPc # "unstarted" /\ asPc # "unstarted" /\ wdPc # "unstarted"
            /\ \A e \in Executors : exPc[e] # "unstarted"
            /\ running = 4)
    /\ (newPc = "defaults") ~> (newPc = "returned" \/ Hung \/ Reporting)
\* New has returned after a tick of the Tick Driver was executed before New's
\* own
NewReturnsAfterTickWitness ==
    /\ newPc = "returned"
    /\ <<TickId, 1>> \in done
    /\ \E e \in Executors : exPc[e] = "idle"
    /\ currentTick = 2 /\ tickFired = 1

====
